---- MODULE Spec2Model ----
(***************************************************************************)
(* A model of process.py: extraction of Hydro One bills from the "Invoice  *)
(* Summary" sheet of .xls workbooks (find_in_sheet, get_billing_lines,     *)
(* get_bill_dataframe), the merge/derive/filter/drop pipeline (process),   *)
(* and the per-account export (write_output), driven by main.              *)
(***************************************************************************)
EXTENDS Integers, Sequences, FiniteSets, TLC

VARIABLES
    files,      \* the workbooks found by cwd.glob("*.xls"), in iteration order
    config,     \* the parsed process.cfg: [hasDrop, drop, aliases]
    pc,         \* the statement the run is at
    fileIdx,    \* index in files of the workbook being extracted (0: none yet)
    openBooks,  \* the open workbook handles, <<file index, owner>>: xlrd's and pandas'
    frame,      \* locals of get_bill_dataframe: lines, label_row, last_col, footer_size
    readRows,   \* sheet rows pd.read_excel turned into data rows of the last bill
    bills,      \* the dataframes extracted so far (the list comprehension's result)
    err,        \* the exception propagating, [kind, label]; kind "none" when there is none
    mass_df,    \* the dataframe process returns
    again,      \* outcome of running lines 78-101 a second time on mass_df
    todo,       \* write_output: accounts of the set not yet iterated
    writer,     \* the ExcelWriter on output.xlsx: "none", "open" or "closed"
    calls,      \* the to_excel calls made, in order: [account, name, rows]
    book        \* output.xlsx: sheet name -> rows

vars == <<files, config, pc, fileIdx, openBooks, frame, readRows, bills, err,
          mass_df, again, todo, writer, calls, book>>

(***************************************************************************)
(* Bounds of the model.                                                    *)
(***************************************************************************)
MaxCells == 6       \* cells (nrows * ncols) of an enumerated worksheet
MaxFiles == 2       \* input workbooks of a run of main
MaxTotalRows == 3   \* rows of all bills together, in the process specification
MaxWriteRows == 3   \* rows of the merged table, in the write_output specification

XLS_FLOAT_TYPE == 2

LINE_LABEL == "Line #"
USAGE_LABEL == "Metered Usage [kWh]"
SHEET_NAME == "Invoice Summary"

(***************************************************************************)
(* Cells of an xlrd sheet: a type tag (0 empty, 1 text, 2 number) and a    *)
(* value.  A value is text or a number; both fields are always present so  *)
(* that values of different kinds compare unequal, as in Python.           *)
(***************************************************************************)
TextCell(s) == [ctype |-> 1, kind |-> "text", text |-> s, num |-> 0]
NumCell(n) == [ctype |-> XLS_FLOAT_TYPE, kind |-> "num", text |-> "", num |-> n]
EmptyCell == [ctype |-> 0, kind |-> "text", text |-> "", num |-> 0]

\* sheet.cell_value(row, col) == val, for a str val
CellEquals(cell, val) == cell.kind = "text" /\ cell.text = val

EmptySheet == [nrows |-> 0, ncols |-> 0, cells |-> <<>>]

cell_value(sheet, row, col) == sheet.cells[<<row, col>>]
cell_type(sheet, row, col) == sheet.cells[<<row, col>>].ctype

NoError == [kind |-> "none", label |-> ""]
Raise(kind, label) == [kind |-> kind, label |-> label]

(***************************************************************************)
(* find_in_sheet: row 0 first, then row 1, ...; within a row column 0      *)
(* first.  The result is [err, row, col]; err is LookupError when the      *)
(* loops end without a match.                                              *)
(***************************************************************************)
RECURSIVE FindFrom(_, _, _, _)
FindFromColumnMajor(val, sheet, row, col) ==
    IF col >= sheet.ncols THEN [err |-> "LookupError", row |-> 0, col |-> 0]
    ELSE IF row >= sheet.nrows THEN FindFrom(val, sheet, 0, col + 1)
    ELSE IF CellEquals(cell_value(sheet, row, col), val)
         THEN [err |-> "none", row |-> row, col |-> col]
    ELSE FindFrom(val, sheet, row + 1, col)

FindFrom(val, sheet, row, col) ==
    IF row >= sheet.nrows THEN [err |-> "LookupError", row |-> 0, col |-> 0]
    ELSE IF col >= sheet.ncols THEN FindFrom(val, sheet, row + 1, 0)
    ELSE IF CellEquals(cell_value(sheet, row, col), val)
         THEN [err |-> "none", row |-> row, col |-> col]
    ELSE FindFrom(val, sheet, row, col + 1)

find_in_sheet(val, sheet) == FindFrom(val, sheet, 0, 0)

(***************************************************************************)
(* get_billing_lines: the walk down the line column.  cell_type(row, col)  *)
(* indexes the sheet's rows, so a row past the last one is an IndexError.  *)
(***************************************************************************)
RECURSIVE WalkDown(_, _, _, _)
WalkDown(sheet, row, col, lines) ==
    IF row >= sheet.nrows THEN [err |-> Raise("IndexError", ""), lines |-> lines]
    ELSE IF cell_type(sheet, row, col) = XLS_FLOAT_TYPE
         THEN WalkDown(sheet, row + 1, col, lines + 1)
    ELSE [err |-> NoError, lines |-> lines]

get_billing_lines(sheet) ==
    LET at == find_in_sheet(LINE_LABEL, sheet)
    IN  IF at.err # "none"
        THEN [err |-> Raise("ValueError", LINE_LABEL), lines |-> 0]
        ELSE WalkDown(sheet, at.row + 1, at.col, 0)

(***************************************************************************)
(* Values held by a dataframe: text, a number num/den (a float), a         *)
(* calendar date (num: its day ordinal), NaN, or +/-inf.                   *)
(***************************************************************************)
Str(s) == [kind |-> "text", text |-> s, num |-> 0, den |-> 1]
Num(n) == [kind |-> "num", text |-> "", num |-> n, den |-> 1]
Date(d) == [kind |-> "date", text |-> "", num |-> d, den |-> 1]
NaN == [kind |-> "nan", text |-> "", num |-> 0, den |-> 1]
Inf(sign) == [kind |-> "inf", text |-> "", num |-> sign, den |-> 1]

RECURSIVE Gcd(_, _)
Gcd(a, b) == IF b = 0 THEN a ELSE Gcd(b, a % b)
Abs(n) == IF n < 0 THEN -n ELSE n

\* a float quotient n / d with d # 0, as a reduced fraction
Ratio(n, d) ==
    LET g == Gcd(Abs(n), Abs(d))
        s == IF d < 0 THEN -1 ELSE 1
    IN  [kind |-> "num", text |-> "", num |-> s * (n \div g), den |-> s * (d \div g)]

\* what pd.read_excel makes of a cell: an empty cell is NaN
CellToValue(cell) ==
    IF cell.ctype = 0 THEN NaN
    ELSE IF cell.kind = "num" THEN Num(cell.num)
    ELSE Str(cell.text)

(***************************************************************************)
(* str.lower on the column names and config keys of the model.             *)
(***************************************************************************)
LowerTable ==
    [n \in {"Line #", "Account Number", "Reading From Date", "Reading To Date",
            "Service Classification", "Reason Not Billed", "Metered Usage [kWh]",
            "Days In Reading", "kWh Per Day", "Rate Class", "Total"} |->
        CASE n = "Line #" -> "line #"
          [] n = "Account Number" -> "account number"
          [] n = "Reading From Date" -> "reading from date"
          [] n = "Reading To Date" -> "reading to date"
          [] n = "Service Classification" -> "service classification"
          [] n = "Reason Not Billed" -> "reason not billed"
          [] n = "Metered Usage [kWh]" -> "metered usage [kwh]"
          [] n = "Days In Reading" -> "days in reading"
          [] n = "kWh Per Day" -> "kwh per day"
          [] n = "Rate Class" -> "rate class"
          [] n = "Total" -> "total"]

Lower(s) == IF s \in DOMAIN LowerTable THEN LowerTable[s] ELSE s

(***************************************************************************)
(* Dataframes: column names, the index (account numbers) and the rows, one *)
(* value per column.  The index is not a column.                           *)
(***************************************************************************)
EmptyFrame == [columns |-> <<>>, index |-> <<>>, rows |-> <<>>]

Range(seq) == {seq[i] : i \in DOMAIN seq}
ColPos(df, name) == CHOOSE i \in DOMAIN df.columns : df.columns[i] = name
HasCol(df, name) == name \in Range(df.columns)
Column(df, name) == [i \in DOMAIN df.rows |-> df.rows[i][ColPos(df, name)]]

\* df[name] = values: in place when the column exists, appended otherwise
SetColumn(df, name, values) ==
    IF HasCol(df, name)
    THEN [df EXCEPT !.rows = [i \in DOMAIN df.rows |->
                                 [df.rows[i] EXCEPT ![ColPos(df, name)] = values[i]]]]
    ELSE [df EXCEPT !.columns = Append(df.columns, name),
                    !.rows = [i \in DOMAIN df.rows |-> Append(df.rows[i], values[i])]]

RECURSIVE SelectIdx(_, _)
\* the positions i.. of a boolean mask that are true, in order
SelectIdx(mask, i) ==
    IF i > Len(mask) THEN <<>>
    ELSE IF mask[i] THEN <<i>> \o SelectIdx(mask, i + 1)
    ELSE SelectIdx(mask, i + 1)

\* df[mask]: the rows (and their index entries) where the mask is true
FilterRows(df, mask) ==
    LET idx == SelectIdx(mask, 1)
    IN  [df EXCEPT !.index = [k \in DOMAIN idx |-> df.index[idx[k]]],
                   !.rows = [k \in DOMAIN idx |-> df.rows[idx[k]]]]

\* df.drop(labels=name, axis=1)
DropColumn(df, name) ==
    LET p == ColPos(df, name)
        cut(s) == SubSeq(s, 1, p - 1) \o SubSeq(s, p + 1, Len(s))
    IN  [df EXCEPT !.columns = cut(df.columns),
                   !.rows = [i \in DOMAIN df.rows |-> cut(df.rows[i])]]

RECURSIVE UnionColumns(_, _)
\* the columns of the frames in order of first appearance
UnionColumns(frames, acc) ==
    IF frames = <<>> THEN acc
    ELSE LET new == SelectSeq(Head(frames).columns, LAMBDA c : c \notin Range(acc))
         IN  UnionColumns(Tail(frames), acc \o new)

Reindex(df, cols) ==
    [columns |-> cols,
     index |-> df.index,
     rows |-> [i \in DOMAIN df.rows |->
                 [k \in DOMAIN cols |->
                     IF HasCol(df, cols[k]) THEN df.rows[i][ColPos(df, cols[k])] ELSE NaN]]]

RECURSIVE Stack(_, _)
Stack(frames, cols) ==
    IF frames = <<>> THEN [columns |-> cols, index |-> <<>>, rows |-> <<>>]
    ELSE LET h == Reindex(Head(frames), cols)
             t == Stack(Tail(frames), cols)
         IN  [columns |-> cols, index |-> h.index \o t.index, rows |-> h.rows \o t.rows]

\* pd.concat(frames), frames not empty
Concat(frames) == Stack(frames, UnionColumns(frames, <<>>))

(***************************************************************************)
(* pd.read_excel(header=label_row, skipfooter=footer_size, index_col=0,    *)
(* converters={"Account Number": int}, usecols=range(1, last_col + 1)).    *)
(***************************************************************************)
\* the name pandas gives the column under header cell (header, c): the cell's text,
\* "Unnamed: k" for an empty cell, and ".k" appended to the k-th repetition
BaseName(sheet, header, c) ==
    LET cell == cell_value(sheet, header, c)
    IN  IF cell.ctype = 0 THEN "Unnamed: " \o ToString(c - 1)
        ELSE IF cell.kind = "num" THEN ToString(cell.num)
        ELSE cell.text

ColName(sheet, header, c) ==
    LET base == BaseName(sheet, header, c)
        k == Cardinality({b \in 1..(c - 1) : BaseName(sheet, header, b) = base})
    IN  IF k = 0 THEN base ELSE base \o "." \o ToString(k)

\* int(value) of the converter: no text of the model's cells is a numeral
IntFails(cell) == cell.kind # "num"
ToInt(cell) == Num(cell.num)

\* the sheet rows that become data rows: below the header, above the footer
DataRows(sheet, header, skipfooter) ==
    {r \in 0..(sheet.nrows - 1) : r > header /\ r < sheet.nrows - skipfooter}

\* emptyRaises: whether the library rejects an empty usecols list (last_col = 0)
ReadExcel(sheet, header, skipfooter, last_col, emptyRaises) ==
    LET region == DataRows(sheet, header, skipfooter)
        n == Cardinality(region)
        rowAt(i) == header + i
        converted(c) == ColName(sheet, header, c) = "Account Number"
        bad == \E c \in 1..last_col : \E r \in region :
                   converted(c) /\ IntFails(cell_value(sheet, r, c))
        value(r, c) == IF converted(c) THEN ToInt(cell_value(sheet, r, c))
                       ELSE CellToValue(cell_value(sheet, r, c))
    IN  IF last_col < 1 /\ emptyRaises
        THEN [err |-> Raise("ParserError", ""), df |-> EmptyFrame, rows |-> {}]
        ELSE IF last_col < 1
        THEN [err |-> NoError,
              df |-> [columns |-> <<>>, index |-> [i \in 1..n |-> Num(i - 1)],
                      rows |-> [i \in 1..n |-> <<>>]],
              rows |-> region]
        ELSE IF bad
        THEN [err |-> Raise("ValueError", ""), df |-> EmptyFrame, rows |-> {}]
        ELSE [err |-> NoError,
              df |-> [columns |-> [k \in 1..(last_col - 1) |-> ColName(sheet, header, k + 1)],
                      index |-> [i \in 1..n |-> value(rowAt(i), 1)],
                      rows |-> [i \in 1..n |->
                                  [k \in 1..(last_col - 1) |-> value(rowAt(i), k + 1)]]],
              rows |-> region]

\* footer_size = num_rows - (label_row + 1) - lines
FooterSizeNoHeader(num_rows, label_row, lines) == num_rows - label_row - lines
FooterSize(num_rows, label_row, lines) == num_rows - (label_row + 1) - lines

(***************************************************************************)
(* process, lines 78-101, on the list of extracted bills.  Each stage      *)
(* takes the dataframe so far and gives [err, df].                         *)
(***************************************************************************)
FROM_DATE == "Reading From Date"
TO_DATE == "Reading To Date"
USAGE == "Metered Usage [kWh]"
DAYS == "Days In Reading"
PER_DAY == "kWh Per Day"
SERVICE == "Service Classification"
REASON == "Reason Not Billed"
SENTINEL == "Sentinel Lights"
NOT_BILLED == "No billing as of summary billing cut off date"

Ok(df) == [err |-> NoError, df |-> df]
Fail(kind, label) == [err |-> Raise(kind, label), df |-> EmptyFrame]
Failed(r) == r.err.kind # "none"

\* the date strings of the model's bills, as days since 1970-01-01
DateTable ==
    [t \in {"2019-01-01", "2019-01-31", "2019-03-02"} |->
        CASE t = "2019-01-01" -> 17897
          [] t = "2019-01-31" -> 17927
          [] t = "2019-03-02" -> 17957]

\* pd.to_datetime(v).date(): a date stays, a number counts nanoseconds from the epoch
DateParses(v) == v.kind # "text" \/ v.text \in DOMAIN DateTable
ParseDateStringsOnly(v) ==
    CASE v.kind = "text" -> Date(DateTable[v.text])
      [] v.kind = "nan" -> NaN
      [] OTHER -> Date(0)

ParseDate(v) ==
    CASE v.kind = "text" -> Date(DateTable[v.text])
      [] v.kind = "date" -> v
      [] v.kind = "num" -> Date(0)
      [] OTHER -> NaN

\* each stage takes the result so far, [err, df], and passes a failure on
ConvertDates(r, name) ==
    IF Failed(r) THEN r
    ELSE IF ~HasCol(r.df, name) THEN Fail("KeyError", name)
    ELSE IF \E i \in DOMAIN r.df.rows : ~DateParses(Column(r.df, name)[i])
    THEN Fail("ValueError", name)
    ELSE Ok(SetColumn(r.df, name,
                      [i \in DOMAIN r.df.rows |-> ParseDate(Column(r.df, name)[i])]))

\* (to - from) / np.timedelta64(1, 'D')
DaysBetween(from, to) ==
    IF from.kind = "date" /\ to.kind = "date" THEN Num(to.num - from.num) ELSE NaN

DeriveDays(r) ==
    IF Failed(r) THEN r
    ELSE Ok(SetColumn(r.df, DAYS, [i \in DOMAIN r.df.rows |->
            DaysBetween(Column(r.df, FROM_DATE)[i], Column(r.df, TO_DATE)[i])]))

\* usage / days as floats: x/0 is inf, 0/0 is NaN
Divide(u, d) ==
    IF u.kind # "num" \/ d.kind # "num" THEN NaN
    ELSE IF d.num = 0
    THEN (IF u.num = 0 THEN NaN ELSE Inf(IF u.num > 0 THEN 1 ELSE -1))
    ELSE Ratio(u.num * d.den, u.den * d.num)

DerivePerDay(r) ==
    IF Failed(r) THEN r
    ELSE IF ~HasCol(r.df, USAGE) THEN Fail("KeyError", USAGE)
    ELSE IF \E i \in DOMAIN r.df.rows : Column(r.df, USAGE)[i].kind = "text"
    THEN Fail("TypeError", USAGE)
    ELSE Ok(SetColumn(r.df, PER_DAY, [i \in DOMAIN r.df.rows |->
                Divide(Column(r.df, USAGE)[i], Column(r.df, DAYS)[i])]))

\* mass_df[mass_df[name] != text]
ExcludeKeepAll(r, name, text) ==
    IF Failed(r) THEN r
    ELSE IF ~HasCol(r.df, name) THEN Fail("KeyError", name) ELSE r

Exclude(r, name, text) ==
    IF Failed(r) THEN r
    ELSE IF ~HasCol(r.df, name) THEN Fail("KeyError", name)
    ELSE Ok(FilterRows(r.df, [i \in DOMAIN r.df.rows |-> Column(r.df, name)[i] # Str(text)]))

\* key in config["Drop"]: configparser puts the key through optionxform (str.lower)
\* and looks it up among the section's stored keys
HasOption(section, key) == Lower(key) \in section

\* drop_label.lower() in config["Drop"]
InDrop(label, cfg) == HasOption(cfg.drop, Lower(label))

RECURSIVE DropLoop(_, _, _)
DropLoopFirstOnly(df, labels, cfg) ==
    IF labels = <<>> THEN df
    ELSE IF InDrop(Head(labels), cfg) THEN DropColumn(df, Head(labels))
    ELSE DropLoop(df, Tail(labels), cfg)

\* for drop_label in mass_df.columns.values.tolist(): ...
DropLoop(df, labels, cfg) ==
    IF labels = <<>> THEN df
    ELSE IF InDrop(Head(labels), cfg)
         THEN DropLoop(DropColumn(df, Head(labels)), Tail(labels), cfg)
    ELSE DropLoop(df, Tail(labels), cfg)

DropColumns(r, cfg) ==
    IF Failed(r) THEN r
    ELSE IF cfg.hasDrop THEN Ok(DropLoop(r.df, r.df.columns, cfg)) ELSE r

\* pd.concat(bills): "No objects to concatenate" for an empty list
ConcatBills(frames) ==
    IF frames = <<>> THEN Fail("ValueError", "") ELSE Ok(Concat(frames))

Process(frames, cfg) ==
    DropColumns(
        Exclude(
            Exclude(
                DerivePerDay(
                    DeriveDays(
                        ConvertDates(ConvertDates(ConcatBills(frames), FROM_DATE), TO_DATE))),
                SERVICE, SENTINEL),
            REASON, NOT_BILLED),
        cfg)

(***************************************************************************)
(* write_output: the sheet name of an account and the rows written for it. *)
(***************************************************************************)
\* str(account_num)
StrOf(v) ==
    CASE v.kind = "num" -> ToString(v.num)
      [] v.kind = "text" -> v.text
      [] OTHER -> "nan"

SheetNameNoAlias(account, aliases) == StrOf(account)

SheetName(account, aliases) ==
    IF StrOf(account) \in DOMAIN aliases THEN aliases[StrOf(account)] ELSE StrOf(account)

\* mass_df.loc[account_num]: the rows whose index is the account, in order
Loc(df, account) ==
    LET idx == SelectIdx([i \in DOMAIN df.index |-> df.index[i] = account], 1)
    IN  [k \in DOMAIN idx |-> [index |-> df.index[idx[k]], row |-> df.rows[idx[k]]]]

\* to_excel(writer, name): a new sheet, or the cells of the sheet of that name
\* overwritten from the top
ToExcel(wb, name, rows) ==
    IF name \in DOMAIN wb
    THEN [wb EXCEPT ![name] = rows \o SubSeq(wb[name], Len(rows) + 1, Len(wb[name]))]
    ELSE [n \in DOMAIN wb \cup {name} |-> IF n = name THEN rows ELSE wb[n]]

NoFrame == [lines |-> 0, label_row |-> 0, last_col |-> 0, footer_size |-> 0, num_rows |-> 0,
            ret |-> EmptyFrame]
NotRun == [ran |-> FALSE, err |-> NoError, df |-> EmptyFrame]
NoBook == [n \in {} |-> <<>>]

CurrentBook == files[fileIdx]
CurrentSheet == files[fileIdx].sheet

(***************************************************************************)
(* get_bill_dataframe(files[fileIdx]), statement by statement.  An         *)
(* exception inside the with block goes through its exit (exit_with).      *)
(***************************************************************************)
\* line 49: with xlrd.open_workbook(filename=filename) as xl
OpenWorkbook ==
    /\ pc = "open"
    /\ openBooks' = openBooks \cup {<<fileIdx, "xlrd">>}
    /\ frame' = NoFrame
    /\ readRows' = {}
    /\ pc' = "sheet_by_name"
    /\ UNCHANGED <<files, config, fileIdx, bills, err, mass_df, again, todo, writer, calls, book>>

\* lines 50-56: xl.sheet_by_name("Invoice Summary"), re-raising XLRDError
SheetByName ==
    /\ pc = "sheet_by_name"
    /\ IF CurrentBook.hasSheet
       THEN /\ frame' = [frame EXCEPT !.num_rows = CurrentSheet.nrows]
            /\ pc' = "billing_lines"
            /\ err' = err
       ELSE /\ err' = Raise("XLRDError", SHEET_NAME)
            /\ pc' = "exit_with"
            /\ frame' = frame
    /\ UNCHANGED <<files, config, fileIdx, openBooks, readRows, bills, mass_df, again, todo,
                   writer, calls, book>>

\* line 57: lines = get_billing_lines(sheet)
GetBillingLines ==
    /\ pc = "billing_lines"
    /\ LET r == get_billing_lines(CurrentSheet)
       IN  IF r.err.kind = "none"
           THEN /\ frame' = [frame EXCEPT !.lines = r.lines]
                /\ pc' = "label_row"
                /\ err' = err
           ELSE /\ err' = r.err
                /\ pc' = "exit_with"
                /\ frame' = frame
    /\ UNCHANGED <<files, config, fileIdx, openBooks, readRows, bills, mass_df, again, todo,
                   writer, calls, book>>

\* line 59: label_row, _ = find_in_sheet("Line #", sheet)
FindLabelRow ==
    /\ pc = "label_row"
    /\ LET at == find_in_sheet(LINE_LABEL, CurrentSheet)
       IN  IF at.err = "none"
           THEN /\ frame' = [frame EXCEPT !.label_row = at.row]
                /\ pc' = "last_col"
                /\ err' = err
           ELSE /\ err' = Raise(at.err, LINE_LABEL)
                /\ pc' = "exit_with"
                /\ frame' = frame
    /\ UNCHANGED <<files, config, fileIdx, openBooks, readRows, bills, mass_df, again, todo,
                   writer, calls, book>>

\* lines 61-63: _, last_col = find_in_sheet("Metered Usage [kWh]", sheet); footer_size
FindLastCol ==
    /\ pc = "last_col"
    /\ LET at == find_in_sheet(USAGE_LABEL, CurrentSheet)
       IN  IF at.err = "none"
           THEN /\ frame' = [frame EXCEPT
                     !.last_col = at.col,
                     !.footer_size = FooterSize(frame.num_rows, frame.label_row, frame.lines)]
                /\ pc' = "read_excel"
                /\ err' = err
           ELSE /\ err' = Raise(at.err, USAGE_LABEL)
                /\ pc' = "exit_with"
                /\ frame' = frame
    /\ UNCHANGED <<files, config, fileIdx, openBooks, readRows, bills, mass_df, again, todo,
                   writer, calls, book>>

\* lines 66-72: pd.read_excel(io=filename, ...) opens the file itself
ReadExcelOpen ==
    /\ pc = "read_excel"
    /\ openBooks' = openBooks \cup {<<fileIdx, "pandas">>}
    /\ pc' = "read_excel_parse"
    /\ UNCHANGED <<files, config, fileIdx, frame, readRows, bills, err, mass_df, again, todo,
                   writer, calls, book>>

\* lines 66-72: read_excel parses the sheet, closes its handle, and returns or raises
ReadExcelParse ==
    /\ pc = "read_excel_parse"
    /\ \E emptyRaises \in BOOLEAN :
         LET r == ReadExcel(CurrentSheet, frame.label_row, frame.footer_size,
                            frame.last_col, emptyRaises)
         IN  /\ err' = r.err
             /\ readRows' = r.rows
             /\ frame' = [frame EXCEPT !.ret = r.df]
    /\ openBooks' = openBooks \ {<<fileIdx, "pandas">>}
    /\ pc' = "exit_with"
    /\ UNCHANGED <<files, config, fileIdx, bills, mass_df, again, todo,
                   writer, calls, book>>

\* the with block's exit: the handle is released, then the value is returned to
\* the list comprehension of line 76 or the exception goes on to the caller
ExitKeepsOnError ==
    /\ pc = "exit_with"
    /\ openBooks' = IF err.kind = "none" THEN openBooks \ {<<fileIdx, "xlrd">>} ELSE openBooks
    /\ IF err.kind = "none"
       THEN bills' = Append(bills, frame.ret) /\ pc' = "loop"
       ELSE bills' = bills /\ pc' = "raised"
    /\ UNCHANGED <<files, config, fileIdx, frame, readRows, err, mass_df, again, todo,
                   writer, calls, book>>

ExitWith ==
    /\ pc = "exit_with"
    /\ openBooks' = openBooks \ {<<fileIdx, "xlrd">>}
    /\ IF err.kind = "none"
       THEN bills' = Append(bills, frame.ret) /\ pc' = "loop"
       ELSE bills' = bills /\ pc' = "raised"
    /\ UNCHANGED <<files, config, fileIdx, frame, readRows, err, mass_df, again, todo,
                   writer, calls, book>>

(***************************************************************************)
(* main and process: the loop over the files, then lines 77-101, then      *)
(* write_output.                                                           *)
(***************************************************************************)
\* main, lines 119-131: the config is read and the glob of the files is made
ReadConfig ==
    /\ pc = "main"
    /\ pc' = "loop"
    /\ UNCHANGED <<files, config, fileIdx, openBooks, frame, readRows, bills, err, mass_df,
                   again, todo, writer, calls, book>>

\* line 76: the list comprehension takes the next file
NextFileAfterError ==
    /\ pc \in {"loop", "raised"}
    /\ fileIdx < Len(files)
    /\ fileIdx' = fileIdx + 1
    /\ pc' = "open"
    /\ err' = NoError
    /\ UNCHANGED <<files, config, openBooks, frame, readRows, bills, mass_df,
                   again, todo, writer, calls, book>>

NextFile ==
    /\ pc = "loop"
    /\ fileIdx < Len(files)
    /\ fileIdx' = fileIdx + 1
    /\ pc' = "open"
    /\ UNCHANGED <<files, config, openBooks, frame, readRows, bills, err, mass_df,
                   again, todo, writer, calls, book>>

\* lines 77-101, once every file has been extracted
ProcessStep ==
    /\ pc = "loop"
    /\ fileIdx = Len(files)
    /\ LET r == Process(bills, config)
       IN  IF r.err.kind = "none"
           THEN mass_df' = r.df /\ err' = err /\ pc' = "write"
           ELSE mass_df' = mass_df /\ err' = r.err /\ pc' = "raised"
    /\ UNCHANGED <<files, config, fileIdx, openBooks, frame, readRows, bills,
                   again, todo, writer, calls, book>>

\* lines 78-101 run again on the dataframe process returned, with the same config
Reprocess ==
    /\ pc = "write"
    /\ ~again.ran
    /\ LET r == Process(<<mass_df>>, config)
       IN  again' = [ran |-> TRUE, err |-> r.err, df |-> r.df]
    /\ pc' = "reprocessed"
    /\ UNCHANGED <<files, config, fileIdx, openBooks, frame, readRows, bills, err, mass_df,
                   todo, writer, calls, book>>

\* lines 105-108: accounts = set(mass_df.index); with pd.ExcelWriter("output.xlsx")
OpenWriter ==
    /\ pc = "write"
    /\ todo' = Range(mass_df.index)
    /\ writer' = "open"
    /\ pc' = "write_loop"
    /\ UNCHANGED <<files, config, fileIdx, openBooks, frame, readRows, bills, err, mass_df,
                   again, calls, book>>

\* lines 109-115: one iteration of the loop over the set, in any order
WriteSheet ==
    /\ pc = "write_loop"
    /\ \E account_num \in todo :
         LET worksheet_name == SheetName(account_num, config.aliases)
             rows == Loc(mass_df, account_num)
         IN  /\ book' = ToExcel(book, worksheet_name, rows)
             /\ calls' = Append(calls, [account |-> account_num, name |-> worksheet_name,
                                        rows |-> rows])
             /\ todo' = todo \ {account_num}
    /\ UNCHANGED <<files, config, pc, fileIdx, openBooks, frame, readRows, bills, err,
                   mass_df, again, writer>>

\* the end of the with block of line 108
CloseWriter ==
    /\ pc = "write_loop"
    /\ todo = {}
    /\ writer' = "closed"
    /\ pc' = "done"
    /\ UNCHANGED <<files, config, fileIdx, openBooks, frame, readRows, bills, err, mass_df,
                   again, todo, calls, book>>

Extract ==
    \/ OpenWorkbook
    \/ SheetByName
    \/ GetBillingLines
    \/ FindLabelRow
    \/ FindLastCol
    \/ ReadExcelOpen
    \/ ReadExcelParse
    \/ ExitWith

(***************************************************************************)
(* The inputs.                                                             *)
(***************************************************************************)
SeqsUpTo(S, n) == UNION {[1..k -> S] : k \in 0..n}

NoSheetBook == [hasSheet |-> FALSE, sheet |-> EmptySheet]
BookOf(sheet) == [hasSheet |-> TRUE, sheet |-> sheet]

\* every worksheet of at most maxCells cells over four kinds of cell
Alphabet == {TextCell(LINE_LABEL), TextCell(USAGE_LABEL), NumCell(1), TextCell("Total")}

SmallSheets(maxCells) ==
    {EmptySheet} \cup
    UNION {{[nrows |-> r, ncols |-> c, cells |-> f] :
                f \in [(0..(r - 1)) \X (0..(c - 1)) -> Alphabet]} :
           <<r, c>> \in {rc \in (1..maxCells) \X (1..maxCells) : rc[1] * rc[2] <= maxCells}}

\* a Hydro One invoice sheet: top rows of preamble, the header row, the billing
\* lines, foot rows of footer
HeaderCells == <<TextCell(LINE_LABEL), TextCell("Account Number"), TextCell(FROM_DATE),
                 TextCell(TO_DATE), TextCell(SERVICE), TextCell(REASON), TextCell(USAGE_LABEL),
                 TextCell("Total")>>

LineCells(line, k) ==
    <<NumCell(line), k.account, TextCell(k.from), TextCell(k.to), TextCell(k.service),
      IF k.reason = "" THEN EmptyCell ELSE TextCell(k.reason), NumCell(k.usage),
      NumCell(k.usage)>>

BillSheet(top, header, kinds, foot) ==
    LET n == Len(kinds)
        w == Len(header)
    IN  [nrows |-> top + 1 + n + foot,
         ncols |-> w,
         cells |-> [rc \in (0..(top + n + foot)) \X (0..(w - 1)) |->
            IF rc[1] < top THEN (IF rc[2] = 0 THEN TextCell("Hydro One") ELSE EmptyCell)
            ELSE IF rc[1] = top THEN header[rc[2] + 1]
            ELSE IF rc[1] <= top + n THEN LineCells(rc[1] - top, kinds[rc[1] - top])[rc[2] + 1]
            ELSE (IF rc[2] = 0 THEN TextCell("Total") ELSE EmptyCell)]]

Kind(account, from, to, service, reason, usage) ==
    [account |-> account, from |-> from, to |-> to, service |-> service,
     reason |-> reason, usage |-> usage]

Billed111 == Kind(NumCell(111), "2019-01-01", "2019-01-31", "Residential", "", 60)
ZeroDays222 == Kind(NumCell(222), "2019-01-31", "2019-01-31", "General", "", 5)
Sentinel111 == Kind(NumCell(111), "2019-01-31", "2019-03-02", SENTINEL, "", 30)
Unbilled222 == Kind(NumCell(222), "2019-03-02", "2019-03-02", "Residential", NOT_BILLED, 0)
Both333 == Kind(NumCell(333), "2019-01-01", "2019-01-01", SENTINEL, NOT_BILLED, 0)
Billed222 == Kind(NumCell(222), "2019-01-01", "2019-03-02", "Residential", "", 90)
BadAccount == Kind(TextCell("n/a"), "2019-01-01", "2019-01-31", "Residential", "", 60)
BadDate == Kind(NumCell(111), "n/a", "2019-01-31", "Residential", "", 60)

RowKinds == {Billed111, ZeroDays222, Sentinel111, Unbilled222, Both333}

\* the bills of a run of main: sound ones, and one for each way extraction fails
SampleBooks ==
    {BookOf(BillSheet(1, HeaderCells, <<Billed111>>, 1)),
     BookOf(BillSheet(0, HeaderCells, <<Sentinel111, Billed222>>, 2)),
     NoSheetBook,
     BookOf(BillSheet(1, [HeaderCells EXCEPT ![1] = TextCell("Line")], <<Billed111>>, 1)),
     BookOf(BillSheet(1, [HeaderCells EXCEPT ![7] = TextCell("Usage")], <<Billed111>>, 1)),
     BookOf(BillSheet(1, HeaderCells, <<Billed111>>, 0)),
     BookOf(BillSheet(1, HeaderCells, <<BadAccount>>, 1)),
     BookOf(BillSheet(1, HeaderCells, <<BadDate>>, 1))}

NoAliases == [k \in {} |-> ""]
Config(hasDrop, drop, aliases) == [hasDrop |-> hasDrop, drop |-> drop, aliases |-> aliases]

\* process.cfg: configparser stores the keys of a section in lower case
DropKeys == {"service classification", "kwh per day"}
DropChoices == {Config(FALSE, {}, NoAliases)} \cup
               {Config(TRUE, d, NoAliases) : d \in SUBSET DropKeys}

AliasKeys == {"111", "222"}
AliasNames == {"Smith", "222"}
AliasMaps == UNION {[D -> AliasNames] : D \in SUBSET AliasKeys}

MainConfigs ==
    {Config(d[1], d[2], a) :
        d \in {<<FALSE, {}>>, <<TRUE, {"service classification"}>>},
        a \in {NoAliases, [k \in {"111"} |-> "Smith"], [k \in AliasKeys |-> "Smith"]}}

RECURSIVE Segments(_, _, _, _)
\* the rows cut into consecutive bills after the positions of cuts (a cut after the
\* last row leaves an empty bill)
Segments(rows, cuts, i, cur) ==
    IF i = Len(rows) THEN (IF i \in cuts THEN <<cur, <<>>>> ELSE <<cur>>)
    ELSE IF i \in cuts THEN <<cur>> \o Segments(rows, cuts, i + 1, <<rows[i + 1]>>)
    ELSE Segments(rows, cuts, i + 1, Append(cur, rows[i + 1]))

\* the dataframe get_bill_dataframe returns for a sound bill with these lines
FrameOf(kinds) ==
    LET sheet == BillSheet(0, HeaderCells, kinds, 1)
    IN  ReadExcel(sheet, 0, 1, find_in_sheet(USAGE_LABEL, sheet).col, FALSE).df

\* every way of cutting at most maxRows billing lines into consecutive bills
BillLists(maxRows) ==
    UNION {{[b \in DOMAIN Segments(rows, cuts, 0, <<>>) |->
                FrameOf(Segments(rows, cuts, 0, <<>>)[b])] :
            cuts \in SUBSET (1..Len(rows))} :
           rows \in SeqsUpTo(RowKinds, maxRows)}

Accounts == {Num(111), Num(222), Num(333)}
WriteFrames(maxRows) ==
    {[columns |-> <<USAGE>>, index |-> idx, rows |-> [i \in DOMAIN idx |-> <<Num(i)>>]] :
        idx \in SeqsUpTo(Accounts, maxRows)}

(***************************************************************************)
(* The specifications: one call of get_bill_dataframe on any small sheet,  *)
(* a run of main, process on any list of bills, write_output on any table. *)
(***************************************************************************)
Idle ==
    /\ openBooks = {}
    /\ frame = NoFrame
    /\ readRows = {}
    /\ err = NoError
    /\ again = NotRun
    /\ todo = {}
    /\ writer = "none"
    /\ calls = <<>>
    /\ book = NoBook

InitSheet ==
    /\ files \in {<<b>> : b \in {NoSheetBook} \cup {BookOf(sh) : sh \in SmallSheets(MaxCells)}}
    /\ config = Config(FALSE, {}, NoAliases)
    /\ pc = "open"
    /\ fileIdx = 1
    /\ bills = <<>>
    /\ mass_df = EmptyFrame
    /\ Idle

InitMain ==
    /\ files \in SeqsUpTo(SampleBooks, MaxFiles)
    /\ config \in MainConfigs
    /\ pc = "main"
    /\ fileIdx = 0
    /\ bills = <<>>
    /\ mass_df = EmptyFrame
    /\ Idle

InitProcess ==
    /\ files = <<>>
    /\ config \in DropChoices
    /\ pc = "loop"
    /\ fileIdx = 0
    /\ bills \in BillLists(MaxTotalRows)
    /\ mass_df = EmptyFrame
    /\ Idle

InitWrite ==
    /\ files = <<>>
    /\ config \in {Config(FALSE, {}, a) : a \in AliasMaps}
    /\ pc = "write"
    /\ fileIdx = 0
    /\ bills = <<>>
    /\ mass_df \in WriteFrames(MaxWriteRows)
    /\ Idle

NextSheet == Extract
NextMain == ReadConfig \/ NextFile \/ Extract \/ ProcessStep \/ OpenWriter \/ WriteSheet
            \/ CloseWriter
NextProcess == ProcessStep \/ Reprocess
NextWrite == OpenWriter \/ WriteSheet \/ CloseWriter

SpecSheet == InitSheet /\ [][NextSheet]_vars
Spec == InitMain /\ [][NextMain]_vars
SpecProcess == InitProcess /\ [][NextProcess]_vars
SpecWrite == InitWrite /\ [][NextWrite]_vars

(***************************************************************************)
(* Properties of the extraction of one sheet (SpecSheet).                  *)
(***************************************************************************)
TheSheet == files[1].sheet
HasSheet == files[1].hasSheet
Occurs(val, sheet) ==
    \E r \in 0..(sheet.nrows - 1) : \E c \in 0..(sheet.ncols - 1) :
        CellEquals(cell_value(sheet, r, c), val)

\* (r1, c1) comes before (r2, c2) in row-major order
Before(r1, c1, r2, c2) == r1 < r2 \/ (r1 = r2 /\ c1 < c2)

FirstMatch(val, sheet, found) ==
    /\ found.err \in {"none", "LookupError"}
    /\ found.err = "LookupError" <=> ~Occurs(val, sheet)
    /\ found.err = "none" =>
          /\ found.row \in 0..(sheet.nrows - 1)
          /\ found.col \in 0..(sheet.ncols - 1)
          /\ CellEquals(cell_value(sheet, found.row, found.col), val)
          /\ \A r \in 0..(sheet.nrows - 1) : \A c \in 0..(sheet.ncols - 1) :
                Before(r, c, found.row, found.col) =>
                    ~CellEquals(cell_value(sheet, r, c), val)

\* the number of consecutive numeric-typed cells of column c from row r + 1 down
NumericRun(sheet, r, c) ==
    CHOOSE k \in 0..sheet.nrows :
        /\ \A i \in 1..k : r + i < sheet.nrows /\ cell_type(sheet, r + i, c) = XLS_FLOAT_TYPE
        /\ r + k + 1 >= sheet.nrows \/ cell_type(sheet, r + k + 1, c) # XLS_FLOAT_TYPE

PastBillingLines == pc \notin {"open", "sheet_by_name", "billing_lines"}

\* C1: with a "Line #" cell at (r, c), get_billing_lines returns the number of
\* consecutive numeric cells of column c from row r + 1, also when that run ends at
\* the last row of the sheet: it does not raise.
C1_LineCountAlsoAtEndOfSheet ==
    (HasSheet /\ Occurs(LINE_LABEL, TheSheet) /\ PastBillingLines) =>
        LET at == find_in_sheet(LINE_LABEL, TheSheet)
        IN  /\ err.kind # "IndexError"
            /\ frame.lines = NumericRun(TheSheet, at.row, at.col)

\* C2: find_in_sheet returns the first cell in row-major order that equals the value,
\* and raises LookupError exactly when no cell of the sheet does; the row and column
\* the caller keeps are the ones of that cell.
C2_FindFirstRowMajor ==
    HasSheet =>
        /\ \A val \in {LINE_LABEL, USAGE_LABEL} :
              FirstMatch(val, TheSheet, find_in_sheet(val, TheSheet))
        /\ pc \in {"last_col", "read_excel"} =>
              /\ \E c \in 0..(TheSheet.ncols - 1) :
                    FirstMatch(LINE_LABEL, TheSheet,
                               [err |-> "none", row |-> frame.label_row, col |-> c])
        /\ pc = "read_excel" =>
              /\ \E r \in 0..(TheSheet.nrows - 1) :
                    FirstMatch(USAGE_LABEL, TheSheet,
                               [err |-> "none", row |-> r, col |-> frame.last_col])
        /\ (pc = "raised" /\ err.kind \in {"ValueError", "LookupError"}
                /\ err.label \in {LINE_LABEL, USAGE_LABEL}) =>
              ~Occurs(err.label, TheSheet)

\* a label that occurs twice, its first occurrence (row-major) in a later column than
\* the second, with the lookups of both labels done
C2_Witness ==
    /\ HasSheet
    /\ pc = "read_excel"
    /\ TheSheet.nrows >= 2 /\ TheSheet.ncols >= 2
    /\ CellEquals(cell_value(TheSheet, 0, 1), USAGE_LABEL)
    /\ CellEquals(cell_value(TheSheet, 1, 0), USAGE_LABEL)
    /\ frame.last_col = 1

\* C7: a missing landmark label, "Line #" or "Metered Usage [kWh]", makes the
\* extraction fail with the unrecognized-format error (the ValueError of
\* get_billing_lines), the same for both labels, and not with the missing-sheet error.
C7_MissingLandmarkSameError ==
    pc = "raised" =>
        /\ err.label \in {LINE_LABEL, USAGE_LABEL} => err.kind = "ValueError"
        /\ err.label = SHEET_NAME => err.kind \notin {"ValueError", "LookupError"}

\* C10: when the extraction returns, header + 1 + lines + footer = total rows with
\* footer >= 0, and the rows read are exactly the lines below the header: numeric in
\* the line column, as many as lines, none of them a footer row.
C10_LayoutPartitionsRows ==
    (pc = "loop" /\ HasSheet) =>
        LET at == find_in_sheet(LINE_LABEL, TheSheet)
        IN  /\ frame.label_row + 1 + frame.lines + frame.footer_size = TheSheet.nrows
            /\ frame.footer_size >= 0
            /\ readRows = {frame.label_row + i : i \in 1..frame.lines}
            /\ Cardinality(readRows) = frame.lines
            /\ Len(bills[1].rows) = frame.lines
            /\ \A r \in readRows : cell_type(TheSheet, r, at.col) = XLS_FLOAT_TYPE
            /\ \A r \in 0..(TheSheet.nrows - 1) :
                  r > frame.label_row + NumericRun(TheSheet, at.row, at.col) => r \notin readRows

\* a sheet with a header, a billing line and a footer row, read
C10_Witness ==
    /\ pc = "loop"
    /\ HasSheet
    /\ frame.lines >= 1
    /\ frame.footer_size >= 1
    /\ frame.last_col >= 1
    /\ readRows # {}

(***************************************************************************)
(* Properties of process (SpecProcess).                                    *)
(***************************************************************************)
RECURSIVE InputRows(_)
\* the rows of the bills in order, each as [index, service, reason, usage]
InputRows(frames) ==
    IF frames = <<>> THEN <<>>
    ELSE LET f == Head(frames)
         IN  [i \in DOMAIN f.rows |->
                [index |-> f.index[i],
                 service |-> f.rows[i][ColPos(f, SERVICE)],
                 reason |-> f.rows[i][ColPos(f, REASON)],
                 usage |-> f.rows[i][ColPos(f, USAGE)]]] \o InputRows(Tail(frames))

Excluded(row) == row.service = Str(SENTINEL) \/ row.reason = Str(NOT_BILLED)

\* the rows of the output, each as [index, usage]
OutputKeys(df) ==
    [i \in DOMAIN df.rows |-> [index |-> df.index[i], usage |-> df.rows[i][ColPos(df, USAGE)]]]

ExpectedKeys(frames) ==
    LET kept == SelectSeq(InputRows(frames), LAMBDA row : ~Excluded(row))
    IN  [i \in DOMAIN kept |-> [index |-> kept[i].index, usage |-> kept[i].usage]]

Returned == pc \in {"write", "reprocessed"}

\* C3: the rows process returns are the rows of the concatenated bills, in order and
\* with repetitions, that are neither "Sentinel Lights" nor "No billing as of summary
\* billing cut off date"; so there are at most as many as came in, and fewer when a
\* row is excluded.
C3_RowsAreFilteredConcatenation ==
    Returned =>
        /\ OutputKeys(mass_df) = ExpectedKeys(bills)
        /\ Len(mass_df.rows) <= Len(InputRows(bills))
        /\ (\E i \in DOMAIN InputRows(bills) : Excluded(InputRows(bills)[i]))
              => Len(mass_df.rows) < Len(InputRows(bills))

\* two bills, a row kept twice, rows excluded by each predicate
C3_Witness ==
    /\ pc = "write"
    /\ Len(bills) >= 2
    /\ Len(mass_df.rows) = 2
    /\ mass_df.index[1] = mass_df.index[2]
    /\ Len(InputRows(bills)) = 3
    /\ \E i \in DOMAIN InputRows(bills) : InputRows(bills)[i].service = Str(SENTINEL)

\* the columns before the drop step: those of the bills, then the derived ones
FullColumns == bills[1].columns \o <<DAYS, PER_DAY>>
Dropped(name) == config.hasDrop /\ Lower(name) \in config.drop

\* C4: after the drop step a column is absent if and only if the lowercase form of its
\* name is a key of config["Drop"]; the others, original or derived, keep their order,
\* and without a "Drop" group none is removed.
C4_DropsExactlyConfiguredColumns ==
    Returned =>
        /\ mass_df.columns = SelectSeq(FullColumns, LAMBDA name : ~Dropped(name))
        /\ \A name \in Range(FullColumns) : HasCol(mass_df, name) <=> ~Dropped(name)
        /\ ~config.hasDrop => mass_df.columns = FullColumns

\* an original and a derived column dropped, by keys in lower case
C4_Witness ==
    /\ pc = "write"
    /\ config.hasDrop
    /\ config.drop = {"service classification", "kwh per day"}
    /\ ~HasCol(mass_df, SERVICE)
    /\ ~HasCol(mass_df, PER_DAY)
    /\ HasCol(mass_df, DAYS)
    /\ Len(mass_df.rows) >= 1

\* the columns lines 80-92 read from the dataframe
RequiredColumns == {FROM_DATE, TO_DATE, USAGE, SERVICE, REASON}

\* C6 as stated: for every input and every config, the pipeline run again on its own
\* output completes and returns the same rows and columns.
C6_IdempotentForEveryConfig ==
    again.ran => (again.err.kind = "none" /\ again.df = mass_df)

\* C6: when config["Drop"] names none of the columns lines 80-92 read, the pipeline run
\* again on its own output completes and returns the same rows and columns.
C6_IdempotentWhenInputsKept ==
    (again.ran /\ \A name \in RequiredColumns : ~Dropped(name)) =>
        (again.err.kind = "none" /\ again.df = mass_df)

\* a second run on an output with rows, after a derived column was dropped
C6_Witness ==
    /\ again.ran
    /\ config.hasDrop
    /\ config.drop = {"kwh per day"}
    /\ Len(mass_df.rows) >= 2
    /\ again.df = mass_df
    /\ \E i \in DOMAIN mass_df.rows : mass_df.rows[i][ColPos(mass_df, DAYS)] = Num(0)

(***************************************************************************)
(* Properties of write_output (SpecWrite).                                 *)
(***************************************************************************)
AccountsOf(df) == Range(df.index)

\* the rows of the table whose index is the account, as [index, row]
RowsOf(df, account) ==
    {[index |-> account, row |-> df.rows[i]] : i \in {j \in DOMAIN df.index : df.index[j] = account}}

\* the name the claim gives the sheet of an account
ClaimedName(account) ==
    IF ToString(account.num) \in DOMAIN config.aliases
    THEN config.aliases[ToString(account.num)]
    ELSE ToString(account.num)

SheetHolds(account) ==
    /\ ClaimedName(account) \in DOMAIN book
    /\ LET sh == book[ClaimedName(account)]
       IN  /\ Range(sh) = RowsOf(mass_df, account)
           /\ Len(sh) = Cardinality(RowsOf(mass_df, account))
           /\ \A i, j \in DOMAIN sh : i < j => sh[i].row[1].num < sh[j].row[1].num

OneSheetPerAccount ==
    /\ Cardinality(DOMAIN book) = Cardinality(AccountsOf(mass_df))
    /\ DOMAIN book = {ClaimedName(a) : a \in AccountsOf(mass_df)}
    /\ \A a \in AccountsOf(mass_df) : SheetHolds(a)

NamesDistinct ==
    \A a, b \in AccountsOf(mass_df) : a # b => ClaimedName(a) # ClaimedName(b)

\* C5 as stated: for any table and any alias mapping, output.xlsx has exactly one sheet
\* per account, named by the alias of str(account) or else str(account), holding
\* exactly that account's rows.
C5_OneSheetPerAccountAlways == pc = "done" => OneSheetPerAccount

\* C5: write_output makes one to_excel call per account, under the alias of
\* str(account) or else str(account), with exactly that account's rows; when no two
\* accounts resolve to the same name, output.xlsx has exactly these sheets.
C5_OneSheetPerAccountWhenNamesDistinct ==
    pc = "done" =>
        /\ Len(calls) = Cardinality(AccountsOf(mass_df))
        /\ {c.account : c \in Range(calls)} = AccountsOf(mass_df)
        /\ \A c \in Range(calls) :
              /\ c.name = ClaimedName(c.account)
              /\ Range(c.rows) = RowsOf(mass_df, c.account)
              /\ Len(c.rows) = Cardinality(RowsOf(mass_df, c.account))
        /\ NamesDistinct => OneSheetPerAccount

\* three rows of two accounts, one of them aliased, written under distinct names
C5_Witness ==
    /\ pc = "done"
    /\ Cardinality(AccountsOf(mass_df)) = 2
    /\ Len(mass_df.rows) = 3
    /\ Num(111) \in AccountsOf(mass_df)
    /\ "111" \in DOMAIN config.aliases
    /\ config.aliases["111"] = "Smith"
    /\ NamesDistinct
    /\ "Smith" \in DOMAIN book

(***************************************************************************)
(* Properties of a run of main (Spec).                                     *)
(***************************************************************************)
\* C8: once the extraction of a file (or the derivation) has failed the run ends with
\* that error: no later file is taken up, no bill is added, and output.xlsx is never
\* opened; the writer is opened only after every file has been extracted and the
\* merged table derived.
C8_FailureEndsRunBeforeOutput ==
    /\ [](/\ writer # "none" =>
                /\ err.kind = "none"
                /\ fileIdx = Len(files)
                /\ Len(bills) = Len(files)
                /\ pc \in {"write_loop", "done"}
          /\ err.kind # "none" =>
                /\ writer = "none" /\ calls = <<>> /\ book = NoBook
                /\ pc \in {"exit_with", "raised"})
    /\ [][err.kind # "none" =>
            /\ err' = err
            /\ fileIdx' = fileIdx
            /\ bills' = bills
            /\ writer' = "none"
            /\ pc' = "raised"]_vars

\* the first of two files failed: the second is never opened
C8_Witness ==
    /\ pc = "raised"
    /\ err.kind \in {"XLRDError", "ValueError", "LookupError"}
    /\ fileIdx = 1
    /\ Len(files) = 2
    /\ writer = "none"

\* C9: the handles open at any time are those of one file, the one being extracted;
\* none is open when the next file is taken up, nor after an error.
C9_OneFileOpenAtATime ==
    /\ Cardinality({h[1] : h \in openBooks}) <= 1
    /\ \A h \in openBooks : h[1] = fileIdx
    /\ pc \in {"main", "loop", "open", "raised", "write", "write_loop", "done"} =>
          openBooks = {}

\* the second file failed inside the with block and its handle is released
C9_Witness ==
    /\ pc = "raised"
    /\ fileIdx = 2
    /\ Len(bills) = 1
    /\ err.kind \in {"ValueError", "LookupError", "IndexError"}
    /\ openBooks = {}

====
